---------------------------- MODULE Spec2Model ----------------------------
(***************************************************************************)
(* Model of src/nnue/evaluate_nnue.cpp: the NNUE parameter container       *)
(* (header, two parameter modules, read / write protocol) and the          *)
(* per-position score cache consulted by evaluate / compute_eval.          *)
(*                                                                         *)
(* A 32-bit unsigned integer is a tuple of four bytes, most significant    *)
(* byte first, so 0x7AF32F16 is <<122, 243, 47, 22>>.  Streams are byte     *)
(* sequences with the iostate of std::istream.                             *)
(***************************************************************************)
EXTENDS Integers, Sequences, FiniteSets, TLC

VARIABLES
    feature_transformer,  \* parameter bytes of the transform stage, or Null
    network,              \* parameter bytes of the propagation stage, or Null
    fileName,             \* Eval::NNUE::fileName
    skipLoadingEval,      \* Options["SkipLoadingEval"]
    accumulator,          \* pos.state()->accumulator, per position
    hostBigEndian,        \* byte order of the host that ran the last write
    written,              \* bytes the last WriteParameters left in its stream
    writtenParams,        \* the parameter state that write serialized
    loaded,               \* history: whether the last load_eval_file returned true
    call,                 \* the last call made: its name and arguments
    result,               \* what that call returned
    trace,                \* the module-level calls it made, in order
    stream                \* the std::istream it read from, as it left it

vars == <<feature_transformer, network, fileName, skipLoadingEval, accumulator,
          hostBigEndian, written, writtenParams, loaded, call, result, trace, stream>>

-----------------------------------------------------------------------------
(* Bounds and scaled sizes *)

\* parameter bytes range over 0..MaxParam
MaxParam == 1

\* sizeof the parameter storage of each module, scaled down
FTSize == 2

NWSize == 1

\* a pointer that holds no parameter storage yet
Null == <<>>

None == "none"

Byte == 0..255

ParamByte == 0..MaxParam

FTParams == [1..FTSize -> ParamByte]

NWParams == [1..NWSize -> ParamByte]

-----------------------------------------------------------------------------
(* 32-bit values *)

kVersion == <<122, 243, 47, 22>>

FTHashValue == <<93, 105, 215, 184>>

NWHashValue == <<99, 51, 113, 86>>

kHashValue == <<62, 90, 166, 238>>

Zero32 == <<0, 0, 0, 0>>

Reverse(s) == [i \in 1..Len(s) |-> s[Len(s) + 1 - i]]

\* v + 1 modulo 2^32
Succ32(v) ==
    IF v[4] < 255 THEN <<v[1], v[2], v[3], v[4] + 1>>
    ELSE IF v[3] < 255 THEN <<v[1], v[2], v[3] + 1, 0>>
    ELSE IF v[2] < 255 THEN <<v[1], v[2] + 1, 0, 0>>
    ELSE IF v[1] < 255 THEN <<v[1] + 1, 0, 0, 0>>
    ELSE Zero32

Pow2(n) == IF n = 0 THEN 1 ELSE IF n = 1 THEN 2 ELSE IF n = 2 THEN 4
           ELSE IF n = 3 THEN 8 ELSE IF n = 4 THEN 16 ELSE IF n = 5 THEN 32
           ELSE IF n = 6 THEN 64 ELSE 128

FlipByteBit(b, n) == IF (b \div Pow2(n)) % 2 = 1 THEN b - Pow2(n) ELSE b + Pow2(n)

\* v with bit `bit` (0 = least significant) inverted
FlipBit(v, bit) ==
    [v EXCEPT ![4 - (bit \div 8)] = FlipByteBit(v[4 - (bit \div 8)], bit % 8)]

\* a length below 256 as a 32-bit value
U32(n) == <<0, 0, 0, n>>

\* the four bytes of v as the file format orders them
LittleEndian(v) == Reverse(v)

\* the four bytes of v as they lie in the memory of the host
HostBytes(v, bigEndian) == IF bigEndian THEN v ELSE Reverse(v)

-----------------------------------------------------------------------------
(* std::istream over a byte sequence *)

\* an open stream over data, or (opened = FALSE) one whose open failed
OpenStream(data, opened) ==
    [data |-> data, pos |-> 0, fail |-> ~opened, eof |-> FALSE]

NoStream == OpenStream(<<>>, TRUE)

\* operator bool of the stream: !fail()
StreamOk(s) == ~s.fail

\* stream.read(buf, n): the bytes stored into buf and the stream afterwards
StreamRead(s, n) ==
    IF s.fail \/ s.eof
    THEN [bytes |-> <<>>, s |-> [s EXCEPT !.fail = TRUE]]
    ELSE IF s.pos + n <= Len(s.data)
    THEN [bytes |-> SubSeq(s.data, s.pos + 1, s.pos + n),
          s |-> [s EXCEPT !.pos = s.pos + n]]
    ELSE [bytes |-> SubSeq(s.data, s.pos + 1, Len(s.data)),
          s |-> [s EXCEPT !.pos = Len(s.data), !.fail = TRUE, !.eof = TRUE]]

\* stream.peek() == traits_type::eof(), and the stream afterwards
StreamPeekIsEof(s) ==
    IF s.fail \/ s.eof THEN [eof |-> TRUE, s |-> s]
    ELSE IF s.pos < Len(s.data) THEN [eof |-> FALSE, s |-> s]
    ELSE [eof |-> TRUE, s |-> [s EXCEPT !.eof = TRUE]]

\* the number a 32-bit size stands for, capped above every stream length
SizeOf(v) ==
    IF v[1] = 0 THEN v[4] + 256 * v[3] + 65536 * v[2] ELSE 16777216

\* read_little_endian<std::uint32_t>(stream): four bytes, least significant
\* first; when the read fails the buffer is not filled and the value is
\* indeterminate (garbage)
read_little_endian(s, garbage) ==
    LET r == StreamRead(s, 4)
    IN  [val |-> IF Len(r.bytes) = 4 THEN Reverse(r.bytes) ELSE garbage,
         s |-> r.s]

-----------------------------------------------------------------------------
(* The parameter modules (FeatureTransformer, Network) *)

\* T::ReadParameters(stream): the parameter storage is filled from the next
\* bytes of the stream; the result is !stream.fail()
ModuleReadParameters(s, params) ==
    LET r == StreamRead(s, Len(params))
    IN  [ok |-> ~r.s.fail,
         params |-> [i \in 1..Len(params) |->
                        IF i <= Len(r.bytes) THEN r.bytes[i] ELSE params[i]],
         s |-> r.s]

\* T::WriteParameters(stream): the parameter storage, byte for byte
ModuleWriteParameters(params) == params

-----------------------------------------------------------------------------
(* Detail:: *)

Detail_Initialize_NoMemset(size) == [i \in 1..size |-> IF i = 1 THEN 1 ELSE 0]

\* Detail::Initialize: aligned allocation, then memset to zero
Detail_Initialize(size) == [i \in 1..size |-> 0]

\* the module-level steps a read makes, as recorded in trace
HeaderEvent(name) ==
    IF name = "FeatureTransformer" THEN "FeatureTransformer.header"
    ELSE "Network.header"

ReadEvent(name) ==
    IF name = "FeatureTransformer" THEN "FeatureTransformer.ReadParameters"
    ELSE "Network.ReadParameters"

Detail_ReadParameters_NoHashCheck(s, garbage, hash, name, params) ==
    LET h == read_little_endian(s, garbage)
        m == ModuleReadParameters(h.s, params)
    IN  IF ~StreamOk(h.s)
        THEN [ok |-> FALSE, params |-> params, s |-> h.s,
              trace |-> <<HeaderEvent(name)>>]
        ELSE [ok |-> m.ok, params |-> m.params, s |-> m.s,
              trace |-> <<HeaderEvent(name), ReadEvent(name)>>]

\* Detail::ReadParameters<T>: the sub-header hash, then T::ReadParameters
Detail_ReadParameters(s, garbage, hash, name, params) ==
    LET h == read_little_endian(s, garbage)
        m == ModuleReadParameters(h.s, params)
    IN  IF ~StreamOk(h.s) \/ h.val # hash
        THEN [ok |-> FALSE, params |-> params, s |-> h.s,
              trace |-> <<HeaderEvent(name)>>]
        ELSE [ok |-> m.ok, params |-> m.params, s |-> m.s,
              trace |-> <<HeaderEvent(name), ReadEvent(name)>>]

\* Detail::WriteParameters<T>: the hash as it lies in host memory, then
\* T::WriteParameters
Detail_WriteParameters(hash, params, bigEndian) ==
    HostBytes(hash, bigEndian) \o ModuleWriteParameters(params)

-----------------------------------------------------------------------------
(* Header *)

\* GetArchitectureString(), shortened
ArchitectureString == <<70, 44, 78>>

ReadHeader_VersionUnchecked(s, garbage) ==
    LET v == read_little_endian(s, garbage)
        h == read_little_endian(v.s, garbage)
        z == read_little_endian(h.s, garbage)
        a == StreamRead(z.s, SizeOf(z.val))
    IN  IF ~StreamOk(z.s)
        THEN [ok |-> FALSE, hash_value |-> h.val, architecture |-> <<>>, s |-> z.s]
        ELSE [ok |-> ~a.s.fail, hash_value |-> h.val,
              architecture |-> a.bytes, s |-> a.s]

ReadHeader_VersionFirst(s, garbage) ==
    LET v == read_little_endian(s, garbage)
        h == read_little_endian(v.s, garbage)
        z == read_little_endian(h.s, garbage)
        a == StreamRead(z.s, SizeOf(z.val))
    IN  IF ~StreamOk(v.s) \/ v.val # kVersion
        THEN [ok |-> FALSE, hash_value |-> garbage, architecture |-> <<>>, s |-> v.s]
        ELSE IF ~StreamOk(z.s)
        THEN [ok |-> FALSE, hash_value |-> h.val, architecture |-> <<>>, s |-> z.s]
        ELSE [ok |-> ~a.s.fail, hash_value |-> h.val,
              architecture |-> a.bytes, s |-> a.s]

ReadHeader_ArchUnchecked(s, garbage) ==
    LET v == read_little_endian(s, garbage)
        h == read_little_endian(v.s, garbage)
        z == read_little_endian(h.s, garbage)
        a == StreamRead(z.s, SizeOf(z.val))
    IN  IF ~StreamOk(z.s) \/ v.val # kVersion
        THEN [ok |-> FALSE, hash_value |-> h.val, architecture |-> <<>>, s |-> z.s]
        ELSE [ok |-> TRUE, hash_value |-> h.val,
              architecture |-> a.bytes, s |-> a.s]

ReadHeader_ArchCompared(s, garbage) ==
    LET v == read_little_endian(s, garbage)
        h == read_little_endian(v.s, garbage)
        z == read_little_endian(h.s, garbage)
        a == StreamRead(z.s, SizeOf(z.val))
    IN  IF ~StreamOk(z.s) \/ v.val # kVersion
        THEN [ok |-> FALSE, hash_value |-> h.val, architecture |-> <<>>, s |-> z.s]
        ELSE [ok |-> ~a.s.fail /\ a.bytes = ArchitectureString,
              hash_value |-> h.val, architecture |-> a.bytes, s |-> a.s]

\* ReadHeader: version, hash and size are read, then checked; then the
\* architecture string
ReadHeader(s, garbage) ==
    LET v == read_little_endian(s, garbage)
        h == read_little_endian(v.s, garbage)
        z == read_little_endian(h.s, garbage)
        a == StreamRead(z.s, SizeOf(z.val))
    IN  IF ~StreamOk(z.s) \/ v.val # kVersion
        THEN [ok |-> FALSE, hash_value |-> h.val, architecture |-> <<>>, s |-> z.s]
        ELSE [ok |-> ~a.s.fail, hash_value |-> h.val,
              architecture |-> a.bytes, s |-> a.s]

\* WriteHeader: version, hash and size as they lie in host memory, then the
\* architecture string
WriteHeader(hash_value, architecture, bigEndian) ==
    HostBytes(kVersion, bigEndian) \o HostBytes(hash_value, bigEndian)
        \o HostBytes(U32(Len(architecture)), bigEndian) \o architecture

-----------------------------------------------------------------------------
(* Container *)

\* Initialize(): both modules allocated and zeroed
ZeroFT == Detail_Initialize(FTSize)

ZeroNW == Detail_Initialize(NWSize)

ReadParameters_NoHashGate(s, garbage, ft, nw) ==
    LET hd == ReadHeader(s, garbage)
        r1 == Detail_ReadParameters(hd.s, garbage, FTHashValue,
                                    "FeatureTransformer", ft)
        r2 == Detail_ReadParameters(r1.s, garbage, NWHashValue, "Network", nw)
        pk == StreamPeekIsEof(r2.s)
    IN  IF ~hd.ok
        THEN [ok |-> FALSE, ft |-> ft, nw |-> nw, s |-> hd.s, trace |-> <<>>]
        ELSE IF ~r1.ok
        THEN [ok |-> FALSE, ft |-> r1.params, nw |-> nw, s |-> r1.s,
              trace |-> r1.trace]
        ELSE IF ~r2.ok
        THEN [ok |-> FALSE, ft |-> r1.params, nw |-> r2.params, s |-> r2.s,
              trace |-> r1.trace \o r2.trace]
        ELSE [ok |-> StreamOk(r2.s) /\ pk.eof, ft |-> r1.params,
              nw |-> r2.params, s |-> IF StreamOk(r2.s) THEN pk.s ELSE r2.s,
              trace |-> r1.trace \o r2.trace]

ReadParameters_Unchecked(s, garbage, ft, nw) ==
    LET hd == ReadHeader(s, garbage)
        r1 == Detail_ReadParameters(hd.s, garbage, FTHashValue,
                                    "FeatureTransformer", ft)
        r2 == Detail_ReadParameters(r1.s, garbage, NWHashValue, "Network", nw)
        pk == StreamPeekIsEof(r2.s)
    IN  IF ~hd.ok
        THEN [ok |-> FALSE, ft |-> ft, nw |-> nw, s |-> hd.s, trace |-> <<>>]
        ELSE IF hd.hash_value # kHashValue
        THEN [ok |-> FALSE, ft |-> ft, nw |-> nw, s |-> hd.s, trace |-> <<>>]
        ELSE IF ~r1.ok
        THEN [ok |-> FALSE, ft |-> r1.params, nw |-> nw, s |-> r1.s,
              trace |-> r1.trace]
        ELSE [ok |-> pk.eof, ft |-> r1.params,
              nw |-> r2.params, s |-> pk.s,
              trace |-> r1.trace \o r2.trace]

ReadParameters_NoEofCheck(s, garbage, ft, nw) ==
    LET hd == ReadHeader(s, garbage)
        r1 == Detail_ReadParameters(hd.s, garbage, FTHashValue,
                                    "FeatureTransformer", ft)
        r2 == Detail_ReadParameters(r1.s, garbage, NWHashValue, "Network", nw)
    IN  IF ~hd.ok
        THEN [ok |-> FALSE, ft |-> ft, nw |-> nw, s |-> hd.s, trace |-> <<>>]
        ELSE IF hd.hash_value # kHashValue
        THEN [ok |-> FALSE, ft |-> ft, nw |-> nw, s |-> hd.s, trace |-> <<>>]
        ELSE IF ~r1.ok
        THEN [ok |-> FALSE, ft |-> r1.params, nw |-> nw, s |-> r1.s,
              trace |-> r1.trace]
        ELSE IF ~r2.ok
        THEN [ok |-> FALSE, ft |-> r1.params, nw |-> r2.params, s |-> r2.s,
              trace |-> r1.trace \o r2.trace]
        ELSE [ok |-> StreamOk(r2.s), ft |-> r1.params,
              nw |-> r2.params, s |-> r2.s,
              trace |-> r1.trace \o r2.trace]

\* ReadParameters(stream): header, container hash, the two modules in order,
\* then the end-of-stream check
ReadParameters(s, garbage, ft, nw) ==
    LET hd == ReadHeader(s, garbage)
        r1 == Detail_ReadParameters(hd.s, garbage, FTHashValue,
                                    "FeatureTransformer", ft)
        r2 == Detail_ReadParameters(r1.s, garbage, NWHashValue, "Network", nw)
        pk == StreamPeekIsEof(r2.s)
    IN  IF ~hd.ok
        THEN [ok |-> FALSE, ft |-> ft, nw |-> nw, s |-> hd.s, trace |-> <<>>]
        ELSE IF hd.hash_value # kHashValue
        THEN [ok |-> FALSE, ft |-> ft, nw |-> nw, s |-> hd.s, trace |-> <<>>]
        ELSE IF ~r1.ok
        THEN [ok |-> FALSE, ft |-> r1.params, nw |-> nw, s |-> r1.s,
              trace |-> r1.trace]
        ELSE IF ~r2.ok
        THEN [ok |-> FALSE, ft |-> r1.params, nw |-> r2.params, s |-> r2.s,
              trace |-> r1.trace \o r2.trace]
        ELSE [ok |-> StreamOk(r2.s) /\ pk.eof, ft |-> r1.params,
              nw |-> r2.params, s |-> IF StreamOk(r2.s) THEN pk.s ELSE r2.s,
              trace |-> r1.trace \o r2.trace]

\* WriteParameters(stream) on a stream that accepts every byte
WriteParameters(ft, nw, bigEndian) ==
    WriteHeader(kHashValue, ArchitectureString, bigEndian)
        \o Detail_WriteParameters(FTHashValue, ft, bigEndian)
        \o Detail_WriteParameters(NWHashValue, nw, bigEndian)

-----------------------------------------------------------------------------
(* Scoring *)

Positions == {"p1", "p2"}

\* what the position contributes to the transform stage's input
PositionFeature(p) == IF p = "p1" THEN 1 ELSE 2

FV_SCALE == 16

\* C++ integer division: the quotient is truncated towards zero
TruncDiv(a, b) == IF a >= 0 THEN a \div b ELSE -((-a) \div b)

\* FeatureTransformer::Transform: the transformed features of the position
Transform(p, ft) == ft[1] * PositionFeature(p) + ft[2]

\* Network::Propagate: output[0], an affine layer over a clipped input
Propagate(x, nw) == nw[1] * (IF x > 3 THEN 3 ELSE x) * 24 - 20

ScoreOf(p, ft, nw) == TruncDiv(Propagate(Transform(p, ft), nw), FV_SCALE)

FreshAccumulator ==
    [score |-> 0, computed_score |-> FALSE, computed_accumulation |-> FALSE]

ComputeScore_IgnoresCache(acc, p, refresh, ft, nw) ==
    [value |-> ScoreOf(p, ft, nw),
     acc |-> [score |-> ScoreOf(p, ft, nw), computed_score |-> TRUE,
              computed_accumulation |-> TRUE],
     trace |-> <<"Transform", "Propagate">>]

ComputeScore_IgnoresRefresh(acc, p, refresh, ft, nw) ==
    IF acc.computed_score
    THEN [value |-> acc.score, acc |-> acc, trace |-> <<>>]
    ELSE [value |-> ScoreOf(p, ft, nw),
          acc |-> [score |-> ScoreOf(p, ft, nw), computed_score |-> TRUE,
                   computed_accumulation |-> TRUE],
          trace |-> <<"Transform", "Propagate">>]

ComputeScore_NotMarkedValid(acc, p, refresh, ft, nw) ==
    IF ~refresh /\ acc.computed_score
    THEN [value |-> acc.score, acc |-> acc, trace |-> <<>>]
    ELSE [value |-> ScoreOf(p, ft, nw),
          acc |-> [score |-> ScoreOf(p, ft, nw),
                   computed_score |-> acc.computed_score,
                   computed_accumulation |-> TRUE],
          trace |-> <<"Transform", "Propagate">>]

\* ComputeScore(pos, refresh): the value returned, the accumulator afterwards
\* and the stage calls made
ComputeScore(acc, p, refresh, ft, nw) ==
    IF ~refresh /\ acc.computed_score
    THEN [value |-> acc.score, acc |-> acc, trace |-> <<>>]
    ELSE [value |-> ScoreOf(p, ft, nw),
          acc |-> [score |-> ScoreOf(p, ft, nw), computed_score |-> TRUE,
                   computed_accumulation |-> TRUE],
          trace |-> <<"Transform", "Propagate">>]

-----------------------------------------------------------------------------
(* Streams offered to the reader *)

\* the file layout: three header words, the architecture string, then each
\* module's hash and parameters, all integers least significant byte first
File(version, hash, arch, h1, p1, h2, p2, trail) ==
    LittleEndian(version) \o LittleEndian(hash) \o LittleEndian(U32(Len(arch)))
        \o arch \o LittleEndian(h1) \o p1 \o LittleEndian(h2) \o p2 \o trail

ValidFile(arch, p1, p2) ==
    File(kVersion, kHashValue, arch, FTHashValue, p1, NWHashValue, p2, <<>>)

ArchStrings == {ArchitectureString, <<70, 44, 79>>, <<>>}

ValidFiles == {ValidFile(a, p1, p2) : a \in ArchStrings, p1 \in FTParams, p2 \in NWParams}

Prefix(f, k) == SubSeq(f, 1, k)

Bits32 == 0..31

\* parameter values that differ from the zeroed state in every byte
TopFT == [i \in 1..FTSize |-> MaxParam]

TopNW == [i \in 1..NWSize |-> MaxParam]

SampleFiles ==
    {ValidFile(a, TopFT, TopNW) : a \in {ArchitectureString, <<>>}}
        \cup {ValidFile(ArchitectureString, ZeroFT, ZeroNW)}

TruncatedFiles == UNION {{Prefix(f, k) : k \in 0..(Len(f) - 1)} : f \in SampleFiles}

TrailingFiles == {f \o t : f \in SampleFiles, t \in {<<0>>, <<0, 0>>}}

BadVersions == {Succ32(kVersion), Reverse(kVersion), Zero32}

ModuleHashChoices ==
    {<<FTHashValue, NWHashValue>>, <<FlipBit(FTHashValue, 0), NWHashValue>>,
     <<FTHashValue, FlipBit(NWHashValue, 0)>>}

BadVersionFiles ==
    {File(v, kHashValue, ArchitectureString, h[1], TopFT, h[2], TopNW, <<>>) :
        v \in BadVersions, h \in ModuleHashChoices}
    \cup {Prefix(File(v, kHashValue, ArchitectureString, FTHashValue, TopFT,
                      NWHashValue, TopNW, <<>>), k) :
            v \in BadVersions, k \in {4, 8, 12}}

BadHashFiles ==
    {File(kVersion, FlipBit(kHashValue, b), ArchitectureString,
          FTHashValue, TopFT, NWHashValue, TopNW, <<>>) : b \in Bits32}
    \cup {File(kVersion, FlipBit(kHashValue, 0), ArchitectureString,
               h[1], TopFT, h[2], TopNW, <<>>) : h \in ModuleHashChoices}

BadFTHashFiles ==
    {File(kVersion, kHashValue, ArchitectureString,
          FlipBit(FTHashValue, b), TopFT, NWHashValue, TopNW, <<>>) : b \in Bits32}
    \cup {File(kVersion, kHashValue, ArchitectureString, FlipBit(FTHashValue, 0),
               TopFT, FlipBit(NWHashValue, 0), TopNW, <<>>)}

BadNWHashFiles ==
    {File(kVersion, kHashValue, ArchitectureString,
          FTHashValue, TopFT, FlipBit(NWHashValue, b), TopNW, <<>>) : b \in Bits32}

SampleParams == {<<ZeroFT, ZeroNW>>, <<TopFT, TopNW>>, <<ZeroFT, TopNW>>}

ValidSamples == {ValidFile(a, q[1], q[2]) : a \in ArchStrings, q \in SampleParams}

Streams ==
    ValidSamples \cup TruncatedFiles \cup TrailingFiles \cup BadVersionFiles
        \cup BadHashFiles \cup BadFTHashFiles \cup BadNWHashFiles

\* what a failed read may leave in the value it returns
Garbage == {Zero32, kVersion}

\* the files the service is asked to load
LoadFiles ==
    {ValidFile(ArchitectureString, q[1], q[2]) : q \in SampleParams}
    \cup {Prefix(ValidFile(ArchitectureString, TopFT, TopNW), k) :
            k \in {0, 12, Len(ValidFile(ArchitectureString, TopFT, TopNW)) - 1}}
    \cup {File(kVersion, kHashValue, ArchitectureString, FTHashValue, TopFT,
               FlipBit(NWHashValue, 0), TopNW, <<>>),
          File(Succ32(kVersion), kHashValue, ArchitectureString, FTHashValue,
               TopFT, NWHashValue, TopNW, <<>>),
          ValidFile(ArchitectureString, TopFT, TopNW) \o <<0>>}

FileNames == {"nn.bin", "other.bin"}

-----------------------------------------------------------------------------
(* State machine *)

\* a call: data and opened say what the named file holds and whether it can
\* be opened (opened is TRUE for calls that open no file)
Call(op, pos, name, data) ==
    [op |-> op, pos |-> pos, name |-> name, data |-> data, opened |-> TRUE]

Init ==
    /\ feature_transformer = Null
    /\ network = Null
    /\ fileName = ""
    /\ skipLoadingEval = FALSE
    /\ accumulator = [p \in Positions |-> FreshAccumulator]
    /\ hostBigEndian = FALSE
    /\ written = <<>>
    /\ writtenParams = <<Null, Null>>
    /\ loaded = FALSE
    /\ call = Call("none", None, "", <<>>)
    /\ result = None
    /\ trace = <<>>
    /\ stream = NoStream

\* Initialize()
Initialize ==
    /\ feature_transformer' = ZeroFT
    /\ network' = ZeroNW
    /\ call' = Call("Initialize", None, "", <<>>)
    /\ result' = None
    /\ trace' = <<>>
    /\ stream' = NoStream
    /\ UNCHANGED <<fileName, skipLoadingEval, accumulator, hostBigEndian, written, writtenParams, loaded>>

\* ReadParameters(stream) on an open stream over data
ReadParametersFrom(data) ==
    /\ feature_transformer # Null
    /\ \E garbage \in Garbage :
        LET r == ReadParameters(OpenStream(data, TRUE), garbage,
                                feature_transformer, network)
        IN  /\ feature_transformer' = r.ft
            /\ network' = r.nw
            /\ result' = r.ok
            /\ trace' = r.trace
            /\ stream' = r.s
    /\ call' = Call("ReadParameters", None, "", data)
    /\ UNCHANGED <<fileName, skipLoadingEval, accumulator, hostBigEndian, written, writtenParams, loaded>>

\* WriteParameters(stream) on a string stream, by a build for a host of
\* either byte order
WriteParametersToStream(bigEndian) ==
    /\ feature_transformer # Null
    /\ hostBigEndian' = bigEndian
    /\ written' = WriteParameters(feature_transformer, network, bigEndian)
    /\ writtenParams' = <<feature_transformer, network>>
    /\ call' = Call("WriteParameters", None, "", <<>>)
    /\ result' = TRUE
    /\ trace' = <<"FeatureTransformer.WriteParameters", "Network.WriteParameters">>
    /\ stream' = NoStream
    /\ UNCHANGED <<feature_transformer, network, fileName, skipLoadingEval,
                   accumulator, loaded>>

load_eval_file_ReadsBeforeSkip(evalFile, data, opened) ==
    /\ call' = [Call("load_eval_file", None, evalFile, data) EXCEPT !.opened = opened]
    /\ \E garbage \in Garbage :
        LET r == ReadParameters(OpenStream(data, opened), garbage, ZeroFT, ZeroNW)
        IN  /\ fileName' = evalFile
            /\ feature_transformer' = IF skipLoadingEval THEN ZeroFT ELSE r.ft
            /\ network' = IF skipLoadingEval THEN ZeroNW ELSE r.nw
            /\ result' = (skipLoadingEval \/ r.ok)
            /\ trace' = r.trace
            /\ stream' = r.s
    /\ loaded' = result'
    /\ UNCHANGED <<skipLoadingEval, accumulator, hostBigEndian, written, writtenParams>>

load_eval_file_OpenUnchecked(evalFile, data, opened) ==
    /\ call' = [Call("load_eval_file", None, evalFile, data) EXCEPT !.opened = opened]
    /\ IF skipLoadingEval
       THEN /\ feature_transformer' = ZeroFT
            /\ network' = ZeroNW
            /\ result' = TRUE
            /\ trace' = <<>>
            /\ stream' = NoStream
            /\ UNCHANGED fileName
       ELSE \E garbage \in Garbage :
            LET r == ReadParameters(OpenStream(data, opened), garbage,
                                    ZeroFT, ZeroNW)
            IN  /\ fileName' = evalFile
                /\ feature_transformer' = r.ft
                /\ network' = r.nw
                /\ result' = (r.ok \/ ~opened)
                /\ trace' = r.trace
                /\ stream' = r.s
    /\ loaded' = result'
    /\ UNCHANGED <<skipLoadingEval, accumulator, hostBigEndian, written, writtenParams>>

load_eval_file_NoInitialize(evalFile, data, opened) ==
    /\ call' = [Call("load_eval_file", None, evalFile, data) EXCEPT !.opened = opened]
    /\ IF skipLoadingEval
       THEN /\ feature_transformer' = IF feature_transformer = Null THEN ZeroFT
                                      ELSE feature_transformer
            /\ network' = IF network = Null THEN ZeroNW ELSE network
            /\ result' = TRUE
            /\ trace' = <<>>
            /\ stream' = NoStream
            /\ UNCHANGED fileName
       ELSE \E garbage \in Garbage :
            LET r == ReadParameters(OpenStream(data, opened), garbage,
                        IF feature_transformer = Null THEN ZeroFT
                        ELSE feature_transformer,
                        IF network = Null THEN ZeroNW ELSE network)
            IN  /\ fileName' = evalFile
                /\ feature_transformer' = r.ft
                /\ network' = r.nw
                /\ result' = r.ok
                /\ trace' = r.trace
                /\ stream' = r.s
    /\ loaded' = result'
    /\ UNCHANGED <<skipLoadingEval, accumulator, hostBigEndian, written, writtenParams>>

\* load_eval_file(evalFile); data is what the file holds, opened whether
\* std::ifstream could open it
load_eval_file(evalFile, data, opened) ==
    /\ call' = [Call("load_eval_file", None, evalFile, data) EXCEPT !.opened = opened]
    /\ IF skipLoadingEval
       THEN /\ feature_transformer' = ZeroFT
            /\ network' = ZeroNW
            /\ result' = TRUE
            /\ trace' = <<>>
            /\ stream' = NoStream
            /\ UNCHANGED fileName
       ELSE \E garbage \in Garbage :
            LET r == ReadParameters(OpenStream(data, opened), garbage,
                                    ZeroFT, ZeroNW)
            IN  /\ fileName' = evalFile
                /\ feature_transformer' = r.ft
                /\ network' = r.nw
                /\ result' = r.ok
                /\ trace' = r.trace
                /\ stream' = r.s
    /\ loaded' = result'
    /\ UNCHANGED <<skipLoadingEval, accumulator, hostBigEndian, written, writtenParams>>

\* ComputeScore on position p; the caller's precondition is that the modules
\* were allocated by a load (the pointers are not null)
Score(op, p, refresh) ==
    /\ feature_transformer # Null
    /\ LET r == ComputeScore(accumulator[p], p, refresh, feature_transformer, network)
       IN  /\ accumulator' = [accumulator EXCEPT ![p] = r.acc]
           /\ result' = r.value
           /\ trace' = r.trace
    /\ call' = Call(op, p, "", <<>>)
    /\ stream' = NoStream
    /\ UNCHANGED <<feature_transformer, network, fileName, skipLoadingEval,
                   hostBigEndian, written, writtenParams, loaded>>

\* evaluate(pos)
evaluate(p) == Score("evaluate", p, FALSE)

\* compute_eval(pos)
compute_eval(p) == Score("compute_eval", p, TRUE)

\* update_eval(pos): the accumulation is brought up to date when the
\* previous state allows it (possible)
update_eval(p, possible) ==
    /\ feature_transformer # Null
    /\ accumulator' = [accumulator EXCEPT ![p].computed_accumulation = @ \/ possible]
    /\ call' = Call("update_eval", p, "", <<>>)
    /\ result' = None
    /\ trace' = <<"UpdateAccumulatorIfPossible">>
    /\ stream' = NoStream
    /\ UNCHANGED <<feature_transformer, network, fileName, skipLoadingEval,
                   hostBigEndian, written, writtenParams, loaded>>

\* the search moves position p to a new state node, whose accumulator is new
NewState(p) ==
    /\ accumulator[p] # FreshAccumulator
    /\ accumulator' = [accumulator EXCEPT ![p] = FreshAccumulator]
    /\ call' = Call("new_state", p, "", <<>>)
    /\ result' = None
    /\ trace' = <<>>
    /\ stream' = NoStream
    /\ UNCHANGED <<feature_transformer, network, fileName, skipLoadingEval,
                   hostBigEndian, written, writtenParams, loaded>>

\* setoption name SkipLoadingEval
SetSkipLoadingEval(b) ==
    /\ skipLoadingEval # b
    /\ skipLoadingEval' = b
    /\ call' = Call("setoption", None, "", <<>>)
    /\ result' = None
    /\ trace' = <<>>
    /\ stream' = NoStream
    /\ UNCHANGED <<feature_transformer, network, fileName, accumulator,
                   hostBigEndian, written, writtenParams, loaded>>

\* The evaluation service as the engine drives it
Next ==
    \/ Initialize
    \/ \E n \in FileNames, d \in LoadFiles : load_eval_file(n, d, TRUE)
    \/ \E n \in FileNames : load_eval_file(n, <<>>, FALSE)
    \/ \E p \in Positions : evaluate(p)
    \/ \E p \in Positions : compute_eval(p)
    \/ \E p \in Positions, b \in BOOLEAN : update_eval(p, b)
    \/ \E p \in Positions : NewState(p)
    \/ \E b \in BOOLEAN : SetSkipLoadingEval(b)

Spec == Init /\ [][Next]_vars

\* The reader against every stream of Streams
NextIO ==
    \/ Initialize
    \/ \E d \in Streams : ReadParametersFrom(d)

SpecIO == Init /\ [][NextIO]_vars

\* Writing the container out and reading it back
NextRT ==
    \/ Initialize
    \/ \E b \in BOOLEAN : WriteParametersToStream(b)
    \/ \E d \in ValidFiles \cup {written} : d # <<>> /\ ReadParametersFrom(d)

SpecRT == Init /\ [][NextRT]_vars

\* streams that come in one copy per architecture string: accepted ones and
\* ones rejected at each later check
ArchStreams ==
    {ValidFile(a, q[1], q[2]) : a \in ArchStrings, q \in SampleParams}
    \cup {File(kVersion, FlipBit(kHashValue, 0), a, FTHashValue, TopFT,
                NWHashValue, TopNW, <<>>) : a \in ArchStrings}
    \cup {File(kVersion, kHashValue, a, h[1], TopFT, h[2], TopNW, <<>>) :
            a \in ArchStrings, h \in ModuleHashChoices}
    \cup {File(Succ32(kVersion), kHashValue, a, FTHashValue, TopFT,
                NWHashValue, TopNW, <<>>) : a \in ArchStrings}
    \cup {ValidFile(a, q[1], q[2]) \o <<0>> : a \in ArchStrings, q \in SampleParams}
    \cup {Prefix(ValidFile(a, TopFT, TopNW), Len(ValidFile(a, TopFT, TopNW)) - k) :
            a \in ArchStrings, k \in 1..(NWSize + 4 + FTSize)}

\* The reader against streams that differ in their architecture string
NextArch ==
    \/ Initialize
    \/ \E d \in ArchStreams : ReadParametersFrom(d)

SpecArch == Init /\ [][NextArch]_vars

-----------------------------------------------------------------------------
(* Claims *)

IsRead == call.op = "ReadParameters"

\* C1: a container written by WriteParameters and read back by
\* ReadParameters into a freshly zeroed container is accepted, and both
\* modules then hold the parameter state that was written.
C1_RoundTrip ==
    [][(/\ call'.op = "ReadParameters"
        /\ written # <<>>
        /\ call'.data = written
        /\ feature_transformer = ZeroFT
        /\ network = ZeroNW)
       => (/\ result' = TRUE
           /\ feature_transformer' = writtenParams[1]
           /\ network' = writtenParams[2])]_vars

\* C2: a read that returns false leaves both modules with the parameter
\* state they had when the read was entered.
C2_AllOrNothing ==
    [][(call'.op = "ReadParameters" /\ result' = FALSE)
       => (feature_transformer' = feature_transformer /\ network' = network)]_vars

\* C3: evaluate on a position whose accumulator has computed_score set
\* returns the stored score, calls neither stage and leaves the accumulator
\* alone; on an entry that is not valid it calls both stages once and leaves
\* the entry valid, so only the first of a run of evaluate calls computes.
C3_CacheHit ==
    [][\A p \in Positions :
        (call'.op = "evaluate" /\ call'.pos = p) =>
            IF accumulator[p].computed_score
            THEN /\ result' = accumulator[p].score
                 /\ trace' = <<>>
                 /\ accumulator' = accumulator
            ELSE /\ trace' = <<"Transform", "Propagate">>
                 /\ accumulator'[p].computed_score
                 /\ accumulator'[p].score = result']_vars

C3_Witness ==
    /\ call.op = "evaluate"
    /\ trace = <<>>
    /\ accumulator[call.pos].computed_score
    /\ result = accumulator[call.pos].score
    /\ result # 0

\* C4: compute_eval calls the transform stage and then the propagation
\* stage, once each, whatever the cache entry held, and overwrites the entry
\* with the score computed from the current parameters.
C4_ForcedRecompute ==
    [][\A p \in Positions :
        (call'.op = "compute_eval" /\ call'.pos = p) =>
            /\ trace' = <<"Transform", "Propagate">>
            /\ result' = ScoreOf(p, feature_transformer, network)
            /\ accumulator'[p].computed_score
            /\ accumulator'[p].score = result']_vars

C4_Witness ==
    /\ call.op = "compute_eval"
    /\ trace = <<"Transform", "Propagate">>
    /\ accumulator[call.pos].computed_score
    /\ accumulator[call.pos].score = result
    /\ result = 3

\* C5: after a reload of the model no cache entry that was valid before it
\* is still valid, so evaluate cannot return a score stored before the load.
\* Stated for a reload in the full sense (a model was loaded, and
\* load_eval_file returns true again) and for the entries it makes wrong:
\* those whose stored score is not the score of the reloaded parameters.
C5_ReloadInvalidates ==
    [][(call'.op = "load_eval_file" /\ loaded /\ result' = TRUE)
       => \A p \in Positions :
            (/\ accumulator[p].computed_score
             /\ accumulator[p].score # ScoreOf(p, feature_transformer', network'))
            => ~accumulator'[p].computed_score]_vars

\* where the file layout puts each field of a stream
HasWord(d, off) == Len(d) >= off + 4

Word(d, off) == Reverse(SubSeq(d, off + 1, off + 4))

VersionField(d) == Word(d, 0)

ModelHashField(d) == Word(d, 4)

ArchLenField(d) == SizeOf(Word(d, 8))

FTBlockOffset(d) == 12 + ArchLenField(d)

NWBlockOffset(d) == FTBlockOffset(d) + 4 + FTSize

\* the three header words and the architecture string are there and pass
HeaderAccepted(d) ==
    /\ HasWord(d, 8)
    /\ Len(d) >= FTBlockOffset(d)
    /\ VersionField(d) = kVersion
    /\ ModelHashField(d) = kHashValue

VersionMismatch(d) == HasWord(d, 0) /\ VersionField(d) # kVersion

\* C6: a stream whose format_version is not kVersion is rejected before any
\* module byte is read: no sub-header is read, no module's ReadParameters is
\* called, the stream is not read past the three header words, and both
\* modules keep their parameters.
C6_VersionGate ==
    [][(call'.op = "ReadParameters" /\ VersionMismatch(call'.data))
       => (/\ result' = FALSE
           /\ trace' = <<>>
           /\ stream'.pos <= 12
           /\ feature_transformer' = feature_transformer
           /\ network' = network)]_vars

C6_Witness ==
    /\ IsRead
    /\ call.data = File(Succ32(kVersion), kHashValue, ArchitectureString,
                        FTHashValue, TopFT, NWHashValue, TopNW, <<>>)
    /\ result = FALSE
    /\ trace = <<>>
    /\ stream.pos = 12
    /\ feature_transformer = ZeroFT
    /\ network = TopNW

C8_ContainerHashGate ==
    (IsRead /\ HasWord(call.data, 4) /\ ModelHashField(call.data) # kHashValue) =>
        /\ result = FALSE
        /\ trace = <<>>
        /\ HasWord(call.data, 8) => stream.pos <= FTBlockOffset(call.data)

C8_Witness ==
    /\ IsRead
    /\ \E b \in Bits32 :
        call.data = File(kVersion, FlipBit(kHashValue, b), ArchitectureString,
                         FTHashValue, TopFT, NWHashValue, TopNW, <<>>)
    /\ result = FALSE
    /\ stream.pos = FTBlockOffset(call.data)

\* C9: a sub-header hash that is not the module's own makes the read fail at
\* that module, without calling the module's ReadParameters; after a
\* rejected transform stage no byte of the propagation stage's block is read.
C9_ModuleHashGate ==
    (IsRead /\ HeaderAccepted(call.data)) =>
        /\ (/\ HasWord(call.data, FTBlockOffset(call.data))
            /\ Word(call.data, FTBlockOffset(call.data)) # FTHashValue)
           => (/\ result = FALSE
               /\ trace = <<"FeatureTransformer.header">>
               /\ stream.pos = FTBlockOffset(call.data) + 4)
        /\ (/\ HasWord(call.data, NWBlockOffset(call.data))
            /\ Word(call.data, FTBlockOffset(call.data)) = FTHashValue
            /\ Word(call.data, NWBlockOffset(call.data)) # NWHashValue)
           => (/\ result = FALSE
               /\ trace = <<"FeatureTransformer.header",
                            "FeatureTransformer.ReadParameters", "Network.header">>
               /\ stream.pos = NWBlockOffset(call.data) + 4)

C9_Witness ==
    /\ IsRead
    /\ call.data = File(kVersion, kHashValue, ArchitectureString,
                        FlipBit(FTHashValue, 0), TopFT, NWHashValue, TopNW, <<>>)
    /\ result = FALSE
    /\ trace = <<"FeatureTransformer.header">>

IsProperPrefixOfValidFile(d) ==
    \E f \in ValidFiles : Len(d) < Len(f) /\ d = Prefix(f, Len(d))

\* C10: no proper prefix of a valid file is accepted.
C10_Truncation ==
    (IsRead /\ IsProperPrefixOfValidFile(call.data)) => result = FALSE

C10_Witness ==
    /\ IsRead
    /\ call.data = Prefix(ValidFile(ArchitectureString, TopFT, TopNW),
                          Len(ValidFile(ArchitectureString, TopFT, TopNW)) - 1)
    /\ result = FALSE
    /\ feature_transformer = TopFT

\* a valid file followed by one or more extra bytes
IsValidFileWithTrailingData(d) ==
    \E f \in ValidFiles : Len(d) > Len(f) /\ Prefix(d, Len(f)) = f

\* C11: a valid file followed by one or more extra bytes is rejected, and a
\* read returns true only with the stream exactly exhausted: every byte
\* consumed, the end of the stream seen, and no read having failed.
C11_TrailingData ==
    IsRead =>
        /\ IsValidFileWithTrailingData(call.data) => result = FALSE
        /\ result = TRUE =>
            (/\ stream.pos = Len(call.data)
             /\ stream.eof
             /\ ~stream.fail)

C11_Witness ==
    /\ IsRead
    /\ call.data = ValidFile(ArchitectureString, TopFT, TopNW) \o <<0>>
    /\ result = FALSE
    /\ feature_transformer = TopFT
    /\ network = TopNW
    /\ stream.pos = Len(call.data) - 1
    /\ ~stream.fail

\* C12: with the SkipLoadingEval switch set, load_eval_file returns true for
\* every source identifier, also one that cannot be opened, and does so
\* before any stream I/O: no stream is opened, no byte is read and no
\* module-level read is made.
C12_SkipLoad ==
    [][(call'.op = "load_eval_file" /\ skipLoadingEval)
       => (/\ result' = TRUE
           /\ stream' = NoStream
           /\ trace' = <<>>)]_vars

C12_Witness ==
    /\ call.op = "load_eval_file"
    /\ skipLoadingEval
    /\ ~call.opened
    /\ result = TRUE
    /\ stream = NoStream

\* C13: whatever the byte order of the host, the bytes WriteParameters emits
\* are the file layout with every 32-bit integer (format_version, model_hash,
\* arch_len and both sub-header hashes) least significant byte first.
C13_LittleEndianOutput ==
    written # <<>> =>
        written = File(kVersion, kHashValue, ArchitectureString,
                       FTHashValue, writtenParams[1],
                       NWHashValue, writtenParams[2], <<>>)

\* C14: with the skip switch not set, load_eval_file on a source that cannot
\* be opened returns false, once: the first header read fails on the stream
\* that is not open, no module-level read follows and both modules are left
\* zeroed.
C14_UnavailableSource ==
    [][(call'.op = "load_eval_file" /\ ~skipLoadingEval /\ ~call'.opened)
       => (/\ result' = FALSE
           /\ trace' = <<>>
           /\ stream'.pos = 0
           /\ stream'.fail
           /\ feature_transformer' = ZeroFT
           /\ network' = ZeroNW)]_vars

C14_Witness ==
    /\ call.op = "load_eval_file"
    /\ ~skipLoadingEval
    /\ ~call.opened
    /\ result = FALSE
    /\ stream.fail

\* the end of the propagation stage's block
EndOffset(d) == NWBlockOffset(d) + 4 + NWSize

Min(a, b) == IF a < b THEN a ELSE b

AllEvents ==
    <<"FeatureTransformer.header", "FeatureTransformer.ReadParameters",
      "Network.header", "Network.ReadParameters">>

\* the conditions of acceptance, read off the file layout
Accepted(d) ==
    /\ HasWord(d, 8)
    /\ VersionField(d) = kVersion
    /\ ModelHashField(d) = kHashValue
    /\ Len(d) >= FTBlockOffset(d)
    /\ HasWord(d, FTBlockOffset(d))
    /\ Word(d, FTBlockOffset(d)) = FTHashValue
    /\ HasWord(d, NWBlockOffset(d))
    /\ Word(d, NWBlockOffset(d)) = NWHashValue
    /\ Len(d) = EndOffset(d)

\* the first check that stream d fails, in the order the reader makes them:
\* the result, the module-level steps made and the bytes consumed by then
Outcome(d) ==
    IF ~HasWord(d, 8) \/ VersionField(d) # kVersion
    THEN [ok |-> FALSE, steps |-> 0, pos |-> Min(Len(d), 12)]
    ELSE IF Len(d) < FTBlockOffset(d)
    THEN [ok |-> FALSE, steps |-> 0, pos |-> Len(d)]
    ELSE IF ModelHashField(d) # kHashValue
    THEN [ok |-> FALSE, steps |-> 0, pos |-> FTBlockOffset(d)]
    ELSE IF ~HasWord(d, FTBlockOffset(d)) \/ Word(d, FTBlockOffset(d)) # FTHashValue
    THEN [ok |-> FALSE, steps |-> 1, pos |-> Min(Len(d), FTBlockOffset(d) + 4)]
    ELSE IF Len(d) < NWBlockOffset(d)
    THEN [ok |-> FALSE, steps |-> 2, pos |-> Len(d)]
    ELSE IF ~HasWord(d, NWBlockOffset(d)) \/ Word(d, NWBlockOffset(d)) # NWHashValue
    THEN [ok |-> FALSE, steps |-> 3, pos |-> Min(Len(d), NWBlockOffset(d) + 4)]
    ELSE IF Len(d) < EndOffset(d)
    THEN [ok |-> FALSE, steps |-> 4, pos |-> Len(d)]
    ELSE [ok |-> Len(d) = EndOffset(d), steps |-> 4, pos |-> EndOffset(d)]

\* C15 as stated: a read returns true exactly when the stream passes every
\* check, and the checks are made in the order version, model_hash,
\* architecture string, modules, end of stream: a stream whose version
\* passes and whose model_hash does not is rejected at the model_hash, with
\* nothing after the three header words read.
C15_AcceptanceInStatedOrder ==
    IsRead =>
        /\ result = Accepted(call.data)
        /\ (/\ HasWord(call.data, 8)
            /\ VersionField(call.data) = kVersion
            /\ ModelHashField(call.data) # kHashValue)
           => stream.pos <= 12

\* C15 as amended: a read returns true exactly when the stream passes every
\* check, and the checks are made in the order: three header words present
\* and version, architecture string present, model_hash, first sub-header,
\* first module's bytes, second sub-header, second module's bytes, end of
\* stream; the read stops at the first check that fails.
C15_Acceptance ==
    IsRead =>
        /\ result = Accepted(call.data)
        /\ result = Outcome(call.data).ok
        /\ trace = SubSeq(AllEvents, 1, Outcome(call.data).steps)
        /\ stream.pos = Outcome(call.data).pos

C15_Witness ==
    /\ IsRead
    /\ HasWord(call.data, 8)
    /\ VersionField(call.data) = kVersion
    /\ ModelHashField(call.data) # kHashValue
    /\ ArchLenField(call.data) = 3
    /\ Len(call.data) = EndOffset(call.data)
    /\ result = FALSE
    /\ trace = <<>>
    /\ stream.pos = 15

IsScoring == call.op \in {"evaluate", "compute_eval"}

\* C16: after every evaluate or compute_eval call the accumulator of the
\* position has computed_score set and stores the value the call returned;
\* when the call recomputed, that value is the propagation stage's output on
\* the transform stage's output for the position, divided by FV_SCALE.
C16_ScoringPostcondition ==
    IsScoring =>
        /\ accumulator[call.pos].computed_score
        /\ accumulator[call.pos].score = result
        /\ trace # <<>> =>
            result = TruncDiv(Propagate(Transform(call.pos, feature_transformer),
                                        network), FV_SCALE)

C16_Witness ==
    /\ call.op = "evaluate"
    /\ trace = <<"Transform", "Propagate">>
    /\ accumulator[call.pos].computed_score
    /\ accumulator[call.pos].score = result
    /\ result = 1

\* C17: fileName is the identifier passed to the most recent load_eval_file
\* call that returned true: a load that returns true stores its identifier,
\* and nothing else changes fileName, in particular not a load that returns
\* false.
C17_FileNameTracksSuccess ==
    [][IF call'.op = "load_eval_file" /\ result' = TRUE
       THEN fileName' = call'.name
       ELSE fileName' = fileName]_vars

AllZero(params) == \A i \in 1..Len(params) : params[i] = 0

\* the score of position p on modules that were never deserialized
UnloadedScore(p) == -1

\* C18: after Initialize(), and after every load_eval_file call that returns
\* true through the skip switch, both modules have storage of their full
\* size with every byte zero, and scoring a position on them gives the same
\* value every time.
C18_ZeroedUnloaded ==
    [][(\/ call'.op = "Initialize"
        \/ (call'.op = "load_eval_file" /\ skipLoadingEval))
       => (/\ Len(feature_transformer') = FTSize
           /\ Len(network') = NWSize
           /\ AllZero(feature_transformer')
           /\ AllZero(network')
           /\ \A p \in Positions :
                ComputeScore(FreshAccumulator, p, TRUE,
                             feature_transformer', network').value
                    = UnloadedScore(p))]_vars

C18_Witness ==
    /\ call.op = "load_eval_file"
    /\ skipLoadingEval
    /\ loaded
    /\ fileName # ""
    /\ AllZero(feature_transformer)
    /\ AllZero(network)

\* the architecture strings put in the place of a stream's own
AltArchStrings == ArchStrings \cup {<<0, 255, 70, 44>>}

\* the stream carries its whole architecture string
HasArchString(d) == HasWord(d, 8) /\ Len(d) >= FTBlockOffset(d)

\* stream d with architecture string a (and its length) in the place of its own
WithArch(d, a) ==
    SubSeq(d, 1, 8) \o LittleEndian(U32(Len(a))) \o a
        \o SubSeq(d, FTBlockOffset(d) + 1, Len(d))

\* C19: the content of the architecture string never influences a read: the
\* read of a stream and the read, from the same container state, of the
\* stream that differs from it only in the bytes of the architecture string
\* (arch_len being the string's length in each) return the same result and
\* leave the same parameters in both modules.
C19_ArchitectureNotChecked ==
    [][(call'.op = "ReadParameters" /\ HasArchString(call'.data))
       => \A a \in AltArchStrings, g \in Garbage :
            LET r == ReadParameters(OpenStream(WithArch(call'.data, a), TRUE), g,
                                    feature_transformer, network)
            IN  /\ r.ok = result'
                /\ r.ft = feature_transformer'
                /\ r.nw = network']_vars

C19_Witness ==
    /\ IsRead
    /\ call.data = ValidFile(<<70, 44, 79>>, TopFT, TopNW)
    /\ result = TRUE
    /\ feature_transformer = TopFT
    /\ network = TopNW

\* size bytes of stream d from offset off on, zero where the stream has ended
BlockBytes(d, off, size) ==
    [i \in 1..size |-> IF off + i <= Len(d) THEN d[off + i] ELSE 0]

\* what the last load alone determines: the modules are zeroed, and a module
\* whose deserialize was reached holds the bytes the stream had for it
LoadedState(d, opened, skip) ==
    IF skip \/ ~opened
    THEN <<[i \in 1..FTSize |-> 0], [i \in 1..NWSize |-> 0]>>
    ELSE <<IF Outcome(d).steps >= 2
           THEN BlockBytes(d, FTBlockOffset(d) + 4, FTSize)
           ELSE [i \in 1..FTSize |-> 0],
           IF Outcome(d).steps >= 4
           THEN BlockBytes(d, NWBlockOffset(d) + 4, NWSize)
           ELSE [i \in 1..NWSize |-> 0]>>

\* C20: the parameters of both modules after a load_eval_file call are a
\* function of that call alone (the content of its source, whether it could
\* be opened, and the skip switch), whatever was loaded before: a failed or
\* skipped load leaves nothing of the model loaded earlier, and loading the
\* same file again gives the same state.
C20_HistoryIndependence ==
    [][call'.op = "load_eval_file"
       => <<feature_transformer', network'>>
            = LoadedState(call'.data, call'.opened, skipLoadingEval)]_vars

C20_Witness ==
    /\ call.op = "load_eval_file"
    /\ ~loaded
    /\ call.opened
    /\ AllZero(feature_transformer)
    /\ AllZero(network)
    /\ accumulator["p2"].computed_score
    /\ accumulator["p2"].score = 3

====
